---------------------------- MODULE Spec2Model ----------------------------
(***************************************************************************)
(* A model of the MAPS CAS client library (src/src/mapcas): the CasClient  *)
(* bookkeeping of call objects per analog line, and the CasCall helpers    *)
(* that turn method calls into UserEvent / WaitForEvent exchanges with the *)
(* vendor transport `maps`.  The transport is not part of the repository:  *)
(* every value it returns is a nondeterministic input of the action that   *)
(* calls it.  The code is Python 2 (backquotes in MapsGenericApi.py:177),  *)
(* so `/` on integers is floor division and dict.items() is a list copy.   *)
(***************************************************************************)
EXTENDS Integers, Sequences, FiniteSets, Bags, TLC

(***************************************************************************)
(* Bounds of the model.                                                    *)
(***************************************************************************)
\* StartScript returns a handle in 0..MaxHandle (0 is "not started")
MaxHandle == 1
\* the user opens and queries the lines 1..MaxLine
MaxLine == 1
\* the user keeps at most MaxHeld references to CasCall objects
MaxHeld == 2
\* system_check is called at most MaxChecks times
MaxChecks == 1
\* system_check is called for the T1 ports 1..MaxPort
MaxPort == 1
\* at most MaxPending user events are left outstanding by *_start calls
MaxPending == 2
\* detections are started while fewer than MaxDetecting are outstanding
MaxDetecting == 1

(***************************************************************************)
(* Program constants.                                                      *)
(***************************************************************************)
DEFAULT_TIME_OUT == 3000
SUCCESS == 0
CONNECT_FAILED == 100
SENDING_FAILED == 102
CREATE_HANDLE_FAILURE == 108
UNKNOWN_RESPONSE_CODE == 124
SERVER_ERROR_TEST_BED_NOT_STARTED == 300
SERVER_ERROR_SCRIPT_IS_ALREADY_STARTED_ON_THE_SAME_SCRIPTID == 305
SERVER_ERROR_SCRIPT_NOT_AVAILABLE == 309
timeout_default == 20000
timeout_fax_default == 100000
\* timeslots of a T1 card: the 24 of get_card_from_line, system_check
TimeslotsPerCard == 24
\* the timeout system_check passes to WaitForEvent(.., "VerifyDialTone", ..)
VerifyDialToneTimeout == 10000

VARIABLES
    connection_id,  \* CasClient.connection_id; NoAttr until connect() sets it
    status,         \* CasClient.status
    response_code,  \* CasClient.response_code
    active_lines,   \* CasClient.active_lines: dict line -> CasCall object
    calls,          \* the live CasCall objects: object id -> its fields
    nextObj,        \* the id the next constructed CasCall gets
    held,           \* the CasCall objects the user holds a reference to
    lastOp,         \* the public operation called last, with its arguments
    trace,          \* the transport calls the last operation made, in order
    ret,            \* what the last operation returned (or raised)
    pending,        \* bag of <<handle, reply name>>: user events not waited for
    peak,           \* most user events outstanding at a time during lastOp
    lastOpened,     \* history: line -> the call of its last successful open
    closed,         \* history: the calls that were passed to close_line
    nchecks         \* history: the number of system_check calls

vars == <<connection_id, status, response_code, active_lines, calls, nextObj,
          held, lastOp, trace, ret, pending, peak, lastOpened, closed, nchecks>>

\* self.connection_id does not exist before connect() (MapsClient.__init__
\* assigns a local variable, not the attribute)
NoAttr == -1

(***************************************************************************)
(* Values.                                                                 *)
(***************************************************************************)
\* Python's None, a bool, an int, a str, a reference to a CasCall, a raised
\* exception
PyNone == [kind |-> "None"]
PyBool(b) == [kind |-> "bool", val |-> b]
PyInt(n) == [kind |-> "int", val |-> n]
PyRef(c) == [kind |-> "CasCall", val |-> c]
Raised(e) == [kind |-> "raise", val |-> e]

\* "(i)" + str(x) and "(s)" + x
FmtInt(x) == "(i)" \o ToString(x)
FmtStr(s) == "(s)" \o s

\* An event name is kept as its words: the name is the words joined by one
\* space, and event_name.replace(" ", "") is the words joined by nothing.
RECURSIVE Join(_, _)
Join(ws, sep) ==
    IF ws = <<>> THEN ""
    ELSE IF Len(ws) = 1 THEN ws[1]
    ELSE ws[1] \o sep \o Join(Tail(ws), sep)

EventName(ws) == Join(ws, " ")
ReturnVariable(ws) == Join(ws, "")

(***************************************************************************)
(* The transport calls, as they are recorded in trace.                     *)
(***************************************************************************)
\* key is the name a reply to the call is waited for under
TConnect(ip, cid) ==
    [fn |-> "Connect", handle |-> 0, name |-> ip, key |-> "", args |-> <<>>,
     timeout |-> 0, rc |-> cid, reply |-> ""]
TStartScript(cid, script, profile, gc, h) ==
    [fn |-> "StartScript", handle |-> cid, name |-> script, key |-> "",
     args |-> <<profile>> \o gc, timeout |-> 0, rc |-> h, reply |-> ""]
TStopScript(h, rc) ==
    [fn |-> "StopScript", handle |-> h, name |-> "", key |-> "",
     args |-> <<>>, timeout |-> 0, rc |-> rc, reply |-> ""]
TUserEvent(h, ws, gc, rc) ==
    [fn |-> "UserEvent", handle |-> h, name |-> EventName(ws),
     key |-> ReturnVariable(ws), args |-> gc, timeout |-> 0, rc |-> rc,
     reply |-> ""]
TWaitForEvent(h, name, t, reply) ==
    [fn |-> "WaitForEvent", handle |-> h, name |-> name, key |-> name,
     args |-> <<>>, timeout |-> t, rc |-> 0, reply |-> reply]

\* The user events outstanding after one more transport call: an accepted
\* UserEvent is outstanding until a WaitForEvent on its handle asks for its
\* reply.
Outstanding(bag, e) ==
    LET k == <<e.handle, e.key>> IN
    IF e.fn = "UserEvent" /\ e.rc # 0 THEN bag (+) SetToBag({k})
    ELSE IF e.fn = "WaitForEvent" /\ BagIn(k, bag) THEN bag (-) SetToBag({k})
    ELSE bag

\* An operation makes the transport call e: S is the record of the fields
\* the operation reads and writes (see Now below).
Emit(S, e) ==
    LET b == Outstanding(S.pending, e)
        n == BagCardinality(b)
    IN [S EXCEPT !.trace = Append(S.trace, e), !.pending = b,
                 !.peak = IF n > S.peak THEN n ELSE S.peak]

\* the transport calls of tr, one after the other
RECURSIVE EmitAll(_, _)
EmitAll(S, tr) ==
    IF tr = <<>> THEN S ELSE EmitAll(Emit(S, Head(tr)), Tail(tr))

(***************************************************************************)
(* CasClient.                                                              *)
(***************************************************************************)
\* What the transport answers
\* (a reply that the code does not ask for is no input: it is "" in the set)
Handles == 0..MaxHandle
ScriptStatusReplies == {"Running", "Not Running"}
TSStatusReplies == {"TS is unique", "TS is not unique"}
OpenOutcomes ==
    {[h |-> 0, s1 |-> "", s2 |-> ""]}
    \cup {[h |-> h, s1 |-> s1, s2 |-> ""] :
            h \in Handles \ {0}, s1 \in ScriptStatusReplies \ {"Running"}}
    \cup {[h |-> h, s1 |-> "Running", s2 |-> s2] :
            h \in Handles \ {0}, s2 \in TSStatusReplies}
StopScriptStatusReplies == {"Script Stopped", "", "Script Not Found"}
StopOutcomes ==
    {[rc |-> 0, reply |-> ""]}
    \cup {[rc |-> 1, reply |-> r] : r \in StopScriptStatusReplies}
ConnectIds == {0, 1}

UserLines == 1..MaxLine

\* the values of a dict
Values(d) == {d[k] : k \in DOMAIN d}
\* d[k] = v
Put(d, k, v) == [x \in DOMAIN d \cup {k} |-> IF x = k THEN v ELSE d[x]]

\* CasCall(handle, status, level, call_type): MapsCall.__init__ and the
\* class attributes of CasCall
CasCall(handle, st, level, call_type) ==
    [handle |-> handle, status |-> st, level |-> level, type |-> call_type,
     return_code |-> "", rx_digits |-> "", vmwi_status |-> ""]

get_card_from_line(line) == (line - 1) \div TimeslotsPerCard + 1
get_timeslot_from_line(line) == (line - 1) % TimeslotsPerCard

\* get_cas_call(line) on the dict al
get_cas_call(al, line) ==
    IF line \in DOMAIN al THEN PyRef(al[line]) ELSE PyNone

(***************************************************************************)
(* open_line and close_line act on a record S of the fields they touch     *)
(* (active_lines, calls, nextObj, response_code, trace, pending, peak,     *)
(* lastOpened, closed, ret), so that system_check can call them in its     *)
(* loops.                                                                  *)
(***************************************************************************)
\* (a variant of open_line that also tracks the call it returns when the
\* timeslot is not unique)
open_line_tracks_failure(S, cid, line, out) ==
    LET gc_list == << <<"Cardno", FmtInt(get_card_from_line(line))>>,
                      <<"TS", FmtInt(get_timeslot_from_line(line))>> >>
        start == TStartScript(cid, "CLI_CAS.gls", "Card1TS00", gc_list, out.h)
        w1 == TWaitForEvent(out.h, "ScriptStatus", DEFAULT_TIME_OUT, out.s1)
        w2 == TWaitForEvent(out.h, "TSStatus", DEFAULT_TIME_OUT, out.s2)
        id == S.nextObj
        new(call, tr) ==
            [EmitAll(S, tr) EXCEPT !.calls = Put(S.calls, id, call),
                                   !.nextObj = id + 1, !.ret = PyRef(id)]
    IN
    IF cid = NoAttr THEN [S EXCEPT !.ret = Raised("AttributeError")]
    ELSE IF out.h # 0 THEN
        IF out.s1 = "Running" THEN
            [new(CasCall(IF out.s2 = "TS is unique" THEN out.h
                         ELSE SERVER_ERROR_SCRIPT_IS_ALREADY_STARTED_ON_THE_SAME_SCRIPTID,
                         "maps", "LOW", "CAS"), <<start, w1, w2>>)
                EXCEPT !.active_lines = Put(S.active_lines, line, id),
                       !.lastOpened = Put(S.lastOpened, line, id)]
        ELSE new(CasCall(CREATE_HANDLE_FAILURE, "None", "None", "None"),
                 <<start, w1>>)
    ELSE [Emit(S, start) EXCEPT !.ret = PyNone]

\* out = [h, s1, s2]: the handle StartScript returns and the replies to the
\* waits on "ScriptStatus" and "TSStatus"
open_line(S, cid, line, out) ==
    LET cardno == get_card_from_line(line)
        ts == get_timeslot_from_line(line)
        gc_list == << <<"Cardno", FmtInt(cardno)>>, <<"TS", FmtInt(ts)>> >>
        start == TStartScript(cid, "CLI_CAS.gls", "Card1TS00", gc_list, out.h)
        w1 == TWaitForEvent(out.h, "ScriptStatus", DEFAULT_TIME_OUT, out.s1)
        w2 == TWaitForEvent(out.h, "TSStatus", DEFAULT_TIME_OUT, out.s2)
        id == S.nextObj
        new(call, tr) ==
            [EmitAll(S, tr) EXCEPT !.calls = Put(S.calls, id, call),
                                   !.nextObj = id + 1, !.ret = PyRef(id)]
    IN
    IF cid = NoAttr THEN [S EXCEPT !.ret = Raised("AttributeError")]
    ELSE IF out.h # 0 THEN
        IF out.s1 = "Running" THEN
            IF out.s2 = "TS is unique" THEN
                [new(CasCall(out.h, "maps", "LOW", "CAS"), <<start, w1, w2>>)
                    EXCEPT !.active_lines = Put(S.active_lines, line, id),
                           !.lastOpened = Put(S.lastOpened, line, id)]
            ELSE
                new(CasCall(
                        SERVER_ERROR_SCRIPT_IS_ALREADY_STARTED_ON_THE_SAME_SCRIPTID,
                        "None", "None", "None"), <<start, w1, w2>>)
        ELSE new(CasCall(CREATE_HANDLE_FAILURE, "None", "None", "None"),
                 <<start, w1>>)
    ELSE [Emit(S, start) EXCEPT !.ret = PyNone]

\* (a variant of close_line_result that takes an empty reply for any other
\* reply)
close_line_result_no_testbed(out) ==
    IF out.rc # 0 THEN
        IF out.reply # "Script Stopped"
        THEN SERVER_ERROR_SCRIPT_NOT_AVAILABLE
        ELSE SUCCESS
    ELSE SENDING_FAILED

\* out = [rc, reply]: what StopScript returns and the reply to the wait on
\* "StopScriptStatus"
close_line_result(out) ==
    IF out.rc # 0 THEN
        IF out.reply = "" THEN SERVER_ERROR_TEST_BED_NOT_STARTED
        ELSE IF out.reply # "Script Stopped"
             THEN SERVER_ERROR_SCRIPT_NOT_AVAILABLE
             ELSE SUCCESS
    ELSE SENDING_FAILED

\* (a variant of release that deletes nothing)
release_nothing(al, call) == al

\* for k, v in self.active_lines.items(): if v == call: del active_lines[k]
release(al, call) == [k \in {x \in DOMAIN al : al[x] # call} |-> al[k]]

\* (a variant of close_line that releases the line only when the script
\* was stopped)
close_line_keeps_on_failure(S, call, out) ==
    LET h == S.calls[call].handle
        stop == TStopScript(h, out.rc)
        w == TWaitForEvent(h, "StopScriptStatus", DEFAULT_TIME_OUT, out.reply)
        result == close_line_result(out)
    IN [EmitAll(S, IF out.rc # 0 THEN <<stop, w>> ELSE <<stop>>) EXCEPT
                 !.active_lines = IF result = SUCCESS
                                  THEN release(S.active_lines, call)
                                  ELSE S.active_lines,
                 !.response_code = result,
                 !.ret = PyInt(result),
                 !.closed = S.closed \cup {call}]

close_line(S, call, out) ==
    LET h == S.calls[call].handle
        stop == TStopScript(h, out.rc)
        w == TWaitForEvent(h, "StopScriptStatus", DEFAULT_TIME_OUT, out.reply)
        result == close_line_result(out)
    IN [EmitAll(S, IF out.rc # 0 THEN <<stop, w>> ELSE <<stop>>) EXCEPT
                 !.active_lines = release(S.active_lines, call),
                 !.response_code = result,
                 !.ret = PyInt(result),
                 !.closed = S.closed \cup {call}]

\* the record open_line and close_line act on, at the start of an operation
Now == [active_lines |-> active_lines, calls |-> calls, nextObj |-> nextObj,
        response_code |-> response_code, trace |-> <<>>,
        pending |-> pending, peak |-> BagCardinality(pending),
        lastOpened |-> lastOpened, closed |-> closed, ret |-> PyNone]

\* the objects no reference is left to are gone
Live(S, refs) ==
    [c \in {x \in DOMAIN S.calls : x \in refs \cup Values(S.active_lines)}
        |-> S.calls[c]]

\* an operation ends: the variables take the fields of S, and the user
\* holds the references in refs
Finish(op, S, refs) ==
    /\ lastOp' = op
    /\ active_lines' = S.active_lines
    /\ calls' = Live(S, refs)
    /\ nextObj' = S.nextObj
    /\ response_code' = S.response_code
    /\ trace' = S.trace
    /\ ret' = S.ret
    /\ lastOpened' = S.lastOpened
    /\ closed' = S.closed
    /\ held' = refs
    /\ pending' = S.pending
    /\ peak' = S.peak

Op(name, self, args) == [op |-> name, self |-> self, args |-> args]

Init ==
    /\ connection_id = NoAttr
    /\ status = ""
    /\ response_code = UNKNOWN_RESPONSE_CODE
    /\ active_lines = <<>>
    /\ calls = <<>>
    /\ nextObj = 1
    /\ held = {}
    /\ lastOp = Op("__init__", 0, <<>>)
    /\ trace = <<>>
    /\ ret = PyNone
    /\ pending = EmptyBag
    /\ peak = 0
    /\ lastOpened = <<>>
    /\ closed = {}
    /\ nchecks = 0

\* MapsClient.connect()
Connect ==
    \E cid \in ConnectIds :
        /\ connection_id = NoAttr
        /\ connection_id' = cid
        /\ status' = IF cid # 0 THEN "CONNECTED" ELSE status
        /\ Finish(Op("connect", 0, <<>>),
                  [Emit(Now, TConnect("server_ip", cid)) EXCEPT
                      !.ret = PyInt(IF cid # 0 THEN SUCCESS
                                    ELSE CONNECT_FAILED)],
                  held)
        /\ UNCHANGED nchecks

OpenLine ==
    \E line \in UserLines, out \in OpenOutcomes :
        LET S == open_line(Now, connection_id, line, out)
        IN /\ Cardinality(held) < MaxHeld
           /\ Finish(Op("open_line", 0, <<line>>), S,
                     IF S.ret.kind = "CasCall" THEN held \cup {S.ret.val}
                     ELSE held)
           /\ UNCHANGED <<connection_id, status, nchecks>>

CloseLine ==
    \E call \in held, out \in StopOutcomes :
        /\ Finish(Op("close_line", 0, <<call>>),
                  close_line(Now, call, out), held)
        /\ UNCHANGED <<connection_id, status, nchecks>>

GetCasCall ==
    \E line \in UserLines \cup {MaxLine + 1} :
        LET r == get_cas_call(active_lines, line)
        IN /\ Finish(Op("get_cas_call", 0, <<line>>), [Now EXCEPT !.ret = r],
                     IF r.kind = "CasCall" THEN held \cup {r.val} ELSE held)
           /\ UNCHANGED <<connection_id, status, nchecks>>

(***************************************************************************)
(* system_check.  Its three loops run over the 24 lines of the port; L is  *)
(* the record S above plus the local t1_status.  An exception (ret.kind =  *)
(* "raise") ends the operation where it is raised and keeps what was done. *)
(***************************************************************************)
Slots == 0..(TimeslotsPerCard - 1)
VerifyDialToneReplies == {"0", "1", "2", ""}
UserEventRcs == {0, 1}

\* first loop: open the lines
RECURSIVE sc_open(_, _, _, _, _)
sc_open(L, cid, start_port, i, sc) ==
    IF i >= TimeslotsPerCard \/ L.ret.kind = "raise" THEN L
    ELSE LET O == open_line(L, cid, start_port + i, sc.open[i])
         IN IF O.ret.kind = "raise" THEN O
            ELSE IF O.ret.kind = "None"
            THEN [O EXCEPT !.ret = Raised("AttributeError")]
            ELSE sc_open(
                    IF O.calls[O.ret.val].handle # 0
                    THEN [O EXCEPT !.t1_status =
                                       Put(O.t1_status, i, "Port available")]
                    ELSE O,
                    cid, start_port, i + 1, sc)

\* second loop: start the dial tone detection
RECURSIVE sc_start(_, _, _, _)
sc_start(L, start_port, i, sc) ==
    IF i >= TimeslotsPerCard \/ L.ret.kind = "raise" THEN L
    ELSE IF i \notin DOMAIN L.t1_status
    THEN [L EXCEPT !.ret = Raised("KeyError")]
    ELSE IF L.t1_status[i] = "Port available" THEN
        LET tmp_call == get_cas_call(L.active_lines, start_port + i)
        IN IF tmp_call.kind = "None"
           THEN [L EXCEPT !.ret = Raised("AttributeError")]
           ELSE sc_start(
                   Emit(L, TUserEvent(L.calls[tmp_call.val].handle,
                                      <<"Verify", "Dial", "Tone">>, <<>>,
                                      sc.ue[i])),
                   start_port, i + 1, sc)
    ELSE sc_start(L, start_port, i + 1, sc)

\* third loop: wait for the results and close the lines
RECURSIVE sc_wait(_, _, _, _)
sc_wait(L, start_port, i, sc) ==
    IF i >= TimeslotsPerCard \/ L.ret.kind = "raise" THEN L
    ELSE IF i \notin DOMAIN L.t1_status
    THEN [L EXCEPT !.ret = Raised("KeyError")]
    ELSE IF L.t1_status[i] = "Port available" THEN
        LET tmp_call == get_cas_call(L.active_lines, start_port + i)
        IN IF tmp_call.kind = "None"
           THEN [L EXCEPT !.ret = Raised("AttributeError")]
           ELSE LET result == sc.dial[i]
                    W == [Emit(L, TWaitForEvent(L.calls[tmp_call.val].handle,
                                                "VerifyDialTone",
                                                VerifyDialToneTimeout,
                                                result)) EXCEPT
                            !.t1_status =
                                IF result = "1"
                                THEN Put(L.t1_status, i, "No dial tone")
                                ELSE IF result = "2"
                                THEN Put(L.t1_status, i, "Hardware error")
                                ELSE L.t1_status]
                IN sc_wait(close_line(W, tmp_call.val, sc.stop[i]),
                           start_port, i + 1, sc)
    ELSE sc_wait(L, start_port, i + 1, sc)

system_check(S, cid, t1_port, sc) ==
    LET start_port == (t1_port - 1) * TimeslotsPerCard + 1
        L0 == [active_lines |-> S.active_lines, calls |-> S.calls,
               nextObj |-> S.nextObj, response_code |-> S.response_code,
               trace |-> S.trace, pending |-> S.pending, peak |-> S.peak,
               lastOpened |-> S.lastOpened,
               closed |-> S.closed, ret |-> S.ret,
               t1_status |-> [i \in 0..(TimeslotsPerCard - 2) |-> "Port in use"]]
        L1 == sc_open(L0, cid, start_port, 0, sc)
        L2 == sc_start(L1, start_port, 0, sc)
        L3 == sc_wait(L2, start_port, 0, sc)
    IN IF L3.ret.kind = "raise" THEN L3
       ELSE [L3 EXCEPT !.ret = [kind |-> "dict", val |-> L3.t1_status]]

\* The server's answers during one system_check: every timeslot but one
\* opens (script id 1 + timeslot), is sent its user event, has a dial
\* tone and stops; the timeslot odd answers in any way.
OddSlots == {0, TimeslotsPerCard - 1}
Scenario(odd, o, ue, dial, stop) ==
    [open |-> [i \in Slots |-> IF i = odd THEN o
                               ELSE [h |-> 1 + i, s1 |-> "Running",
                                     s2 |-> "TS is unique"]],
     ue |-> [i \in Slots |-> IF i = odd THEN ue ELSE 1],
     dial |-> [i \in Slots |-> IF i = odd THEN dial ELSE "0"],
     stop |-> [i \in Slots |-> IF i = odd THEN stop
                               ELSE [rc |-> 1, reply |-> "Script Stopped"]]]

\* the answers for the odd timeslot: an open that fails in each way, or an
\* open that succeeds followed by any answers to the rest
OpenFailures == {o \in OpenOutcomes : o.h \in {0, 1} /\ o.s2 # "TS is unique"}
Stopped == [rc |-> 1, reply |-> "Script Stopped"]
Opened == [h |-> 1, s1 |-> "Running", s2 |-> "TS is unique"]
Scenarios ==
    {Scenario(odd, o, 1, "0", Stopped) : odd \in OddSlots, o \in OpenFailures}
    \cup {Scenario(odd, Opened, 1, dial, Stopped) :
            odd \in OddSlots, dial \in VerifyDialToneReplies}
    \cup {Scenario(odd, Opened, 0, "0", Stopped) : odd \in OddSlots}
    \cup {Scenario(odd, Opened, 1, "0", [rc |-> 0, reply |-> ""]) :
            odd \in OddSlots}

SystemCheck ==
    \E t1_port \in 1..MaxPort, sc \in Scenarios :
        /\ nchecks < MaxChecks
        /\ nchecks' = nchecks + 1
        /\ Finish(Op("system_check", 0, <<t1_port>>),
                  system_check(Now, connection_id, t1_port, sc), held)
        /\ UNCHANGED <<connection_id, status>>

NextLines == Connect \/ OpenLine \/ CloseLine \/ GetCasCall

\* the client operations on lines, without system_check
SpecLines == Init /\ [][NextLines]_vars

NextCheck == Connect \/ OpenLine \/ CloseLine \/ GetCasCall \/ SystemCheck

\* the client operations on lines, with system_check
SpecCheck == Init /\ [][NextCheck]_vars

(***************************************************************************)
(* CasCall.  The helpers act on the record S like open_line; out = [rc,    *)
(* reply] is what UserEvent returns and the reply WaitForEvent returns.    *)
(***************************************************************************)
\* What the transport answers to a user event and to the wait for its reply
Replies == {"0", "1", ""}
EventOutcomes ==
    {[rc |-> 0, reply |-> ""]} \cup {[rc |-> 1, reply |-> r] : r \in Replies}

\* the timeouts the user passes
Timeouts == {timeout_default, 1000}

\* Python's test of a value in `if`
Truthy(v) == v.kind = "bool" /\ v.val

\* (a variant of cas_event that waits for the reply with the margin of
\* cas_wait_for_event)
cas_event_short_wait(S, c, ws, var_list, timeout, out) ==
    LET h == S.calls[c].handle
        S1 == Emit(S, TUserEvent(h, ws, var_list, out.rc))
    IN IF out.rc # 0 THEN
           LET S2 == Emit(S1, TWaitForEvent(h, ReturnVariable(ws),
                                            timeout + 1000, out.reply))
               S3 == [S2 EXCEPT !.calls[c].return_code = out.reply]
           IN IF out.reply = "0" THEN [S3 EXCEPT !.ret = PyBool(TRUE)]
              ELSE [S3 EXCEPT !.ret = PyNone]
       ELSE [S1 EXCEPT !.ret = PyBool(FALSE)]

\* (a variant of cas_event that does not wait for the reply)
cas_event_no_wait(S, c, ws, var_list, timeout, out) ==
    [Emit(S, TUserEvent(S.calls[c].handle, ws, var_list, out.rc))
        EXCEPT !.ret = PyBool(out.rc # 0)]

cas_event(S, c, ws, var_list, timeout, out) ==
    LET h == S.calls[c].handle
        return_variable == ReturnVariable(ws)
        S1 == Emit(S, TUserEvent(h, ws, var_list, out.rc))
    IN IF out.rc # 0 THEN
           LET S2 == Emit(S1, TWaitForEvent(h, return_variable,
                                            timeout + 5000, out.reply))
               S3 == [S2 EXCEPT !.calls[c].return_code = out.reply]
           IN IF out.reply = "0" THEN [S3 EXCEPT !.ret = PyBool(TRUE)]
              \* no return statement is reached: the call returns None
              ELSE [S3 EXCEPT !.ret = PyNone]
       ELSE [S1 EXCEPT !.ret = PyBool(FALSE)]

cas_user_event_start(S, c, ws, var_list, out) ==
    [Emit(S, TUserEvent(S.calls[c].handle, ws, var_list, out.rc))
        EXCEPT !.ret = PyBool(out.rc # 0)]

cas_wait_for_event(S, c, ws, timeout, out) ==
    LET S1 == Emit(S, TWaitForEvent(S.calls[c].handle, ReturnVariable(ws),
                                    timeout + 1000, out.reply))
    IN [S1 EXCEPT !.calls[c].return_code = out.reply,
                  !.ret = PyBool(out.reply = "0")]

offhook(S, c, out) == cas_event(S, c, <<"Offhook">>, <<>>, timeout_default, out)

onhook(S, c, out) == cas_event(S, c, <<"Onhook">>, <<>>, timeout_default, out)

detect_dial_tone(S, c, timeout, dial_tone_duration, out) ==
    cas_event(S, c, <<"Detect", "Dial", "Tone">>,
              << <<"TIMEOUT", FmtInt(timeout)>>,
                 <<"DIAL_TONE_DURATION", FmtInt(dial_tone_duration)>> >>,
              timeout, out)

dial(S, c, digits, out) ==
    cas_event(S, c, <<"Dial">>, << <<"DIGITS", FmtStr(digits)>> >>,
              timeout_default, out)

\* (a variant of place_call that dials whatever the dial tone detection
\* returned)
place_call_ignores_dial_tone(S, c, num_to_dial, o1, o2, o3) ==
    LET S1 == offhook(S, c, o1)
        S2 == detect_dial_tone(S1, c, 20000, 20000, o2)
        S3 == dial(S2, c, num_to_dial, o3)
    IN IF Truthy(S1.ret)
       THEN [S3 EXCEPT !.ret = PyBool(Truthy(S3.ret))]
       ELSE [S1 EXCEPT !.ret = PyBool(FALSE)]

\* o1, o2, o3: the transport's answers to offhook, detect_dial_tone, dial
place_call(S, c, num_to_dial, o1, o2, o3) ==
    LET S1 == offhook(S, c, o1)
        S2 == detect_dial_tone(S1, c, 20000, 20000, o2)
        S3 == dial(S2, c, num_to_dial, o3)
    IN IF Truthy(S1.ret) THEN
           IF Truthy(S2.ret) THEN
               IF Truthy(S3.ret) THEN [S3 EXCEPT !.ret = PyBool(TRUE)]
               ELSE [S3 EXCEPT !.ret = PyBool(FALSE)]
           ELSE [S2 EXCEPT !.ret = PyBool(FALSE)]
       ELSE [S1 EXCEPT !.ret = PyBool(FALSE)]

\* The state after the user has constructed a client and one CasCall
InitCall ==
    \E h \in Handles \ {0} :
        /\ connection_id = NoAttr
        /\ status = ""
        /\ response_code = UNKNOWN_RESPONSE_CODE
        /\ active_lines = <<>>
        /\ calls = (1 :> CasCall(h, "maps", "LOW", "CAS"))
        /\ nextObj = 2
        /\ held = {1}
        /\ lastOp = Op("__init__", 1, <<h>>)
        /\ trace = <<>>
        /\ ret = PyNone
        /\ pending = EmptyBag
        /\ peak = 0
        /\ lastOpened = <<>>
        /\ closed = {}
        /\ nchecks = 0

\* the event names the user passes to the helpers
SampleEvents == {<<"Flash">>, <<"Send", "Test", "Tone">>}
SampleDigits == {"3015551234"}

\* an operation of a call ends
FinishCall(op, S) ==
    /\ Finish(op, S, held)
    /\ UNCHANGED <<connection_id, status, nchecks>>

\* a user event may be left outstanding while fewer than MaxPending are
MayStart == BagCardinality(pending) < MaxPending

CasEvent ==
    \E c \in held, ws \in SampleEvents, t \in Timeouts, out \in EventOutcomes :
        FinishCall(Op("cas_event", c, <<EventName(ws), <<>>, t>>),
                   cas_event(Now, c, ws, <<>>, t, out))

CasUserEventStart ==
    \E c \in held, ws \in SampleEvents, out \in {o \in EventOutcomes : o.reply = ""} :
        /\ MayStart
        /\ FinishCall(Op("cas_user_event_start", c, <<EventName(ws), <<>> >>),
                      cas_user_event_start(Now, c, ws, <<>>, out))

CasWaitForEvent ==
    \E c \in held, ws \in SampleEvents, t \in Timeouts, r \in Replies :
        FinishCall(Op("cas_wait_for_event", c, <<EventName(ws), t>>),
                   cas_wait_for_event(Now, c, ws, t, [rc |-> 0, reply |-> r]))

Offhook ==
    \E c \in held, out \in EventOutcomes :
        FinishCall(Op("offhook", c, <<>>), offhook(Now, c, out))

Onhook ==
    \E c \in held, out \in EventOutcomes :
        FinishCall(Op("onhook", c, <<>>), onhook(Now, c, out))

DetectDialTone ==
    \E c \in held, t \in Timeouts, out \in EventOutcomes :
        FinishCall(Op("detect_dial_tone", c, <<t, 20000>>),
                   detect_dial_tone(Now, c, t, 20000, out))

Dial ==
    \E c \in held, d \in SampleDigits, out \in EventOutcomes :
        FinishCall(Op("dial", c, <<d>>), dial(Now, c, d, out))

PlaceCall ==
    \E c \in held, d \in SampleDigits, o1 \in EventOutcomes,
       o2 \in EventOutcomes, o3 \in EventOutcomes :
        FinishCall(Op("place_call", c, <<d>>),
                   place_call(Now, c, d, o1, o2, o3))

NextCall ==
    \/ CasEvent \/ CasUserEventStart \/ CasWaitForEvent
    \/ Offhook \/ Onhook \/ DetectDialTone \/ Dial \/ PlaceCall

\* the helpers and the call set-up operations of one CasCall
SpecCall == InitCall /\ [][NextCall]_vars

(***************************************************************************)
(* The operations of CasCall that only format an event and hand it to a    *)
(* helper.  Each is the request it makes: the helper it calls, the event   *)
(* name, the parameter list and (for cas_event and cas_wait_for_event) the *)
(* timeout it passes.                                                      *)
(***************************************************************************)
\* a float with one decimal, int + dec / 10; str() of it is "int.dec"
Float(int, dec) == [int |-> int, dec |-> dec]
\* "(f)" + str(x)
FmtFloat(x) == "(f)" \o ToString(x.int) \o "." \o ToString(x.dec)

Req(op, args, helper, ws, gclist, timeout) ==
    [op |-> op, args |-> args, helper |-> helper, ev |-> ws,
     gclist |-> gclist, timeout |-> timeout]

\* the call of the helper a request names
Invoke(S, c, req, out) ==
    CASE req.helper = "cas_event" ->
            cas_event(S, c, req.ev, req.gclist, req.timeout, out)
      [] req.helper = "cas_user_event_start" ->
            cas_user_event_start(S, c, req.ev, req.gclist, out)
      [] req.helper = "cas_wait_for_event" ->
            cas_wait_for_event(S, c, req.ev, req.timeout, out)

detect_busy_tone_start(timeout, busy_tone_duration) ==
    Req("detect_busy_tone_start", <<timeout, busy_tone_duration>>, "cas_user_event_start",
        <<"Detect", "Busy", "Tone">>,
        << <<"TIMEOUT", FmtInt(timeout)>>,
           <<"BUSY_TONE_DURATION", FmtInt(busy_tone_duration)>> >>,
        0)

detect_call_waiting_tone_start(timeout) ==
    Req("detect_call_waiting_tone_start", <<timeout>>, "cas_user_event_start",
        <<"Detect", "Call", "Waiting", "Tone">>,
        << <<"TIMEOUT", FmtInt(timeout)>> >>,
        0)

detect_confirmation_tone_start(timeout) ==
    Req("detect_confirmation_tone_start", <<timeout>>, "cas_user_event_start",
        <<"Detect", "Confirmation", "Tone">>,
        << <<"TIMEOUT", FmtInt(timeout)>> >>,
        0)

detect_dial_tone_start(timeout, dial_tone_duration) ==
    Req("detect_dial_tone_start", <<timeout, dial_tone_duration>>, "cas_user_event_start",
        <<"Detect", "Dial", "Tone">>,
        << <<"TIMEOUT", FmtInt(timeout)>>,
           <<"DIALTONE_DURATION", FmtInt(dial_tone_duration)>> >>,
        0)

detect_distinctive_ringing_signal_start(ring_count, ring_on_1, ring_off_1, ring_on_2, ring_off_2, ring_on_3, ring_off_3, ring_on_4, ring_off_4, timeout) ==
    Req("detect_distinctive_ringing_signal_start", <<ring_count, ring_on_1, ring_off_1, ring_on_2, ring_off_2, ring_on_3, ring_off_3, ring_on_4, ring_off_4, timeout>>, "cas_user_event_start",
        <<"Detect", "Distinctive", "Ringing", "Signal">>,
        << <<"TIMEOUT", FmtInt(timeout)>>,
           <<"RING_COUNT", FmtInt(ring_count)>>,
           <<"RON1", FmtFloat(ring_on_1)>>,
           <<"ROFF1", FmtFloat(ring_off_1)>>,
           <<"RON2", FmtFloat(ring_on_2)>>,
           <<"ROFF2", FmtFloat(ring_off_2)>>,
           <<"RON3", FmtFloat(ring_on_3)>>,
           <<"ROFF3", FmtFloat(ring_off_3)>>,
           <<"RON4", FmtFloat(ring_on_4)>>,
           <<"ROFF4", FmtFloat(ring_off_4)>> >>,
        0)

detect_howler_tone_start(timeout) ==
    Req("detect_howler_tone_start", <<timeout>>, "cas_user_event_start",
        <<"Detect", "Howler", "Tone">>,
        << <<"TIMEOUT", FmtInt(timeout)>> >>,
        0)

detect_reorder_tone_start(timeout, reorder_tone_duration) ==
    Req("detect_reorder_tone_start", <<timeout, reorder_tone_duration>>, "cas_user_event_start",
        <<"Detect", "Reorder", "Tone">>,
        << <<"TIMEOUT", FmtInt(timeout)>>,
           <<"REORDER_TONE_DURATION", FmtInt(reorder_tone_duration)>> >>,
        0)

detect_ringback_tone_start(timeout) ==
    Req("detect_ringback_tone_start", <<timeout>>, "cas_user_event_start",
        <<"Detect", "Ringback", "Tone">>,
        << <<"TIMEOUT", FmtInt(timeout)>> >>,
        0)

detect_ringing_signal_start(ring_count, ring_on, ring_off, timeout) ==
    Req("detect_ringing_signal_start", <<ring_count, ring_on, ring_off, timeout>>, "cas_user_event_start",
        <<"Detect", "Ringing", "Signal">>,
        << <<"TIMEOUT", FmtInt(timeout)>>,
           <<"RING_COUNT", FmtInt(ring_count)>>,
           <<"RING_ON", FmtFloat(ring_on)>>,
           <<"RING_OFF", FmtFloat(ring_off)>> >>,
        0)

detect_ring_splash_start(ring_splash_duration, timeout) ==
    Req("detect_ring_splash_start", <<ring_splash_duration, timeout>>, "cas_user_event_start",
        <<"Detect", "Ring", "Splash">>,
        << <<"TIMEOUT", FmtInt(timeout)>>,
           <<"RING_SPLASH_DURATION", FmtFloat(ring_splash_duration)>> >>,
        0)

detect_silence_start(silence_duration, timeout) ==
    Req("detect_silence_start", <<silence_duration, timeout>>, "cas_user_event_start",
        <<"Detect", "Silence">>,
        << <<"TIMEOUT", FmtInt(timeout)>>,
           <<"SILENCE_DURATION", FmtInt(silence_duration)>> >>,
        0)

detect_special_dial_tone_start(timeout) ==
    Req("detect_special_dial_tone_start", <<timeout>>, "cas_user_event_start",
        <<"Detect", "Special", "Dial", "Tone">>,
        << <<"TIMEOUT", FmtInt(timeout)>> >>,
        0)

detect_speech_start(speech_duration, timeout) ==
    Req("detect_speech_start", <<speech_duration, timeout>>, "cas_user_event_start",
        <<"Verify", "Speech">>,
        << <<"TIMEOUT", FmtInt(timeout)>>,
           <<"SPEECH_DURATION", FmtInt(speech_duration)>> >>,
        0)

detect_test_tone_start(timeout) ==
    Req("detect_test_tone_start", <<timeout>>, "cas_user_event_start",
        <<"Detect", "Test", "Tone">>,
        << <<"TIMEOUT", FmtInt(timeout)>> >>,
        0)

detect_tone_start(freq1, freq2, timeout) ==
    Req("detect_tone_start", <<freq1, freq2, timeout>>, "cas_user_event_start",
        <<"Detect", "Tone">>,
        << <<"TIMEOUT", FmtInt(timeout)>>,
           <<"FREQ1", FmtInt(freq1)>>,
           <<"FREQ2", FmtInt(freq2)>> >>,
        0)

detect_vmwi_start(timeout) ==
    Req("detect_vmwi_start", <<timeout>>, "cas_user_event_start",
        <<"Detect", "VMWI">>,
        << <<"TIMEOUT", FmtInt(timeout)>> >>,
        0)

detect_caller_id_start(timeout) ==
    Req("detect_caller_id_start", <<timeout>>, "cas_user_event_start",
        <<"Detect", "Caller", "ID">>,
        << <<"TIMEOUT", FmtInt(timeout)>> >>,
        0)

tdm_receive_digits_start(timeout) ==
    Req("tdm_receive_digits_start", <<timeout>>, "cas_user_event_start",
        <<"Detect", "Digits">>,
        << <<"TIMEOUT", FmtInt(timeout)>>,
           <<"DIGIT_TYPE", FmtStr("dtmf")>> >>,
        0)

tdm_receive_fax_start(fax_path, timeout) ==
    Req("tdm_receive_fax_start", <<fax_path, timeout>>, "cas_event",
        <<"Receive", "Fax">>,
        << <<"RX_FAX_PATH", FmtStr(fax_path)>> >>,
        timeout)

tdm_receive_file_start(rx_filename, rx_file_duration) ==
    Req("tdm_receive_file_start", <<rx_filename, rx_file_duration>>, "cas_event",
        <<"Receive", "File">>,
        << <<"FILE_DURATION", FmtInt(rx_file_duration)>>,
           <<"RX_PATH", FmtStr(rx_filename)>> >>,
        rx_file_duration)

tdm_receive_file_voice_activated_start(rx_filename, wait_for_voice_timeout, end_of_voice_silence_duration, minimum_receive_duration) ==
    Req("tdm_receive_file_voice_activated_start", <<rx_filename, wait_for_voice_timeout, end_of_voice_silence_duration, minimum_receive_duration>>, "cas_user_event_start",
        <<"Receive", "File", "Voice", "Activated">>,
        << <<"TIMEOUT", FmtInt(wait_for_voice_timeout)>>,
           <<"SILENCE_DURATION", FmtInt(end_of_voice_silence_duration)>>,
           <<"MINIMUM_RECEIVE_DURATION", FmtInt(minimum_receive_duration)>>,
           <<"RX_PATH", FmtStr(rx_filename)>> >>,
        0)

tdm_send_file_start(filename, duration) ==
    Req("tdm_send_file_start", <<filename, duration>>, "cas_event",
        <<"Send", "File">>,
        << <<"FILE_DURATION", FmtInt(duration)>>,
           <<"TX_PATH", FmtStr(filename)>> >>,
        duration)

tdm_send_test_tone(duration) ==
    Req("tdm_send_test_tone", <<duration>>, "cas_event",
        <<"Send", "Test", "Tone">>,
        << <<"TONE_DURATION", FmtInt(duration)>> >>,
        timeout_default)

\* The operations whose documentation says "Non-blocking function", called
\* with the timeout t and the defaults or sample values of the rest
NonBlockingRequests(t) ==
    <<detect_busy_tone_start(t, 10000),
     detect_call_waiting_tone_start(t),
     detect_confirmation_tone_start(t),
     detect_dial_tone_start(t, 20000),
     detect_distinctive_ringing_signal_start(2, Float(800, 0), Float(400, 0),
        Float(800, 0), Float(4000, 0), Float(0, 0), Float(0, 0), Float(0, 0),
        Float(0, 0), t),
     detect_howler_tone_start(t),
     detect_reorder_tone_start(t, 10000),
     detect_ringback_tone_start(t),
     detect_ringing_signal_start(1, Float(2000, 0), Float(4000, 0), t),
     detect_ring_splash_start(Float(500, 0), t),
     detect_silence_start(3000, t),
     detect_special_dial_tone_start(t),
     detect_speech_start(3000, t),
     detect_test_tone_start(t),
     detect_tone_start(1004, 0, t),
     detect_vmwi_start(t),
     detect_caller_id_start(t),
     tdm_receive_digits_start(t),
     tdm_receive_fax_start("rx.tif", t),
     tdm_receive_file_start("rx.pcm", t),
     tdm_receive_file_voice_activated_start("rx.pcm", t, 2000, 1000),
     tdm_send_file_start("tx.pcm", t),
     tdm_send_test_tone(3000)>>

\* the calls of them that are made here: each with either timeout
NonBlockingCalls ==
    NonBlockingRequests(timeout_default) \o NonBlockingRequests(1000)

\* their names
NonBlockingDocumented ==
    {NonBlockingCalls[i].op : i \in DOMAIN NonBlockingCalls}

DocumentedNonBlocking ==
    \E c \in held, i \in DOMAIN NonBlockingCalls, out \in EventOutcomes :
        LET req == NonBlockingCalls[i] IN
            /\ req.helper = "cas_user_event_start" =>
                    MayStart /\ out.reply = ""
            /\ FinishCall(Op(req.op, c, req.args), Invoke(Now, c, req, out))

\* the operations of one CasCall that are documented as non-blocking
SpecStart == InitCall /\ [][DocumentedNonBlocking]_vars

(***************************************************************************)
(* The caller id and VMWI detectors, which read further replies after the  *)
(* result of the detection, and the two getters of CasCall.                *)
(***************************************************************************)
PyStr(s) == [kind |-> "str", val |-> s]

\* CallerId(*arg)
CallerId(arg) ==
    IF Len(arg) = 0
    THEN [kind |-> "CallerId", name |-> "", number |-> "", date |-> "",
          time |-> ""]
    ELSE [kind |-> "CallerId", name |-> arg[1], number |-> arg[2],
          date |-> arg[3], time |-> arg[4]]

\* (a variant of read_caller_id that reads the number before the name)
read_caller_id_number_first(S, c, timeout, cid) ==
    LET h == S.calls[c].handle
        S1 == Emit(S, TWaitForEvent(h, "CIDNumber", timeout, cid[1]))
        S2 == Emit(S1, TWaitForEvent(h, "CIDName", timeout, cid[2]))
        S3 == Emit(S2, TWaitForEvent(h, "CIDDate", timeout, cid[3]))
        S4 == Emit(S3, TWaitForEvent(h, "CIDTime", timeout, cid[4]))
    IN [S4 EXCEPT !.ret = CallerId(<<cid[2], cid[1], cid[3], cid[4]>>)]

\* the four waits for the caller id, and the CallerId made of their replies;
\* cid is what the transport replies to them, in the order they are made
read_caller_id(S, c, timeout, cid) ==
    LET h == S.calls[c].handle
        S1 == Emit(S, TWaitForEvent(h, "CIDName", timeout, cid[1]))
        S2 == Emit(S1, TWaitForEvent(h, "CIDNumber", timeout, cid[2]))
        S3 == Emit(S2, TWaitForEvent(h, "CIDDate", timeout, cid[3]))
        S4 == Emit(S3, TWaitForEvent(h, "CIDTime", timeout, cid[4]))
        tmp_name == S1.trace[Len(S1.trace)].reply
        tmp_number == S2.trace[Len(S2.trace)].reply
        tmp_date == S3.trace[Len(S3.trace)].reply
        tmp_time == S4.trace[Len(S4.trace)].reply
    IN [S4 EXCEPT !.ret = CallerId(<<tmp_name, tmp_number, tmp_date, tmp_time>>)]

detect_caller_id(S, c, timeout, out, cid) ==
    LET S1 == cas_event(S, c, <<"Detect", "Caller", "ID">>,
                        << <<"TIMEOUT", FmtInt(timeout)>> >>, timeout, out)
    IN IF Truthy(S1.ret) THEN read_caller_id(S1, c, timeout, cid)
       ELSE [S1 EXCEPT !.ret = CallerId(<<>>)]

detect_caller_id_wait_for_result(S, c, timeout, out, cid) ==
    LET S1 == cas_wait_for_event(S, c, <<"Detect", "Caller", "ID">>, timeout,
                                 out)
    IN IF Truthy(S1.ret) THEN read_caller_id(S1, c, timeout, cid)
       ELSE [S1 EXCEPT !.ret = CallerId(<<>>)]

\* result: the reply to the wait for "VMWIStatus"
detect_vmwi(S, c, timeout, out, result) ==
    LET S1 == cas_event(S, c, <<"Detect", "VMWI">>,
                        << <<"TIMEOUT", FmtInt(timeout)>> >>, timeout, out)
    IN IF Truthy(S1.ret) THEN
           LET S2 == Emit(S1, TWaitForEvent(S1.calls[c].handle, "VMWIStatus",
                                            timeout, result))
           IN [S2 EXCEPT !.calls[c].vmwi_status =
                              IF result = "0" THEN "On"
                              ELSE IF result = "1" THEN "Off"
                              ELSE @,
                         !.ret = PyBool(TRUE)]
       ELSE [S1 EXCEPT !.calls[c].vmwi_status = "Not Available",
                       !.ret = PyBool(FALSE)]

\* the wait for the detection is made with the timeout 20000 whatever the
\* caller passes, and the reply, a string, is compared with the integer 0:
\* it is never equal
detect_vmwi_wait_for_result(S, c, timeout, out, result) ==
    LET S1 == cas_wait_for_event(S, c, <<"Detect", "VMWI">>, 20000, out)
    IN IF Truthy(S1.ret) THEN
           LET S2 == Emit(S1, TWaitForEvent(S1.calls[c].handle, "VMWIStatus",
                                            timeout, result))
           IN [S2 EXCEPT !.calls[c].vmwi_status = "Off",
                         !.ret = PyBool(TRUE)]
       ELSE [S1 EXCEPT !.calls[c].vmwi_status = "Not Available",
                       !.ret = PyBool(FALSE)]

get_vmwi(S, c) == [S EXCEPT !.ret = PyStr(S.calls[c].vmwi_status)]

\* what the transport replies to the four waits for the caller id
CidReplies ==
    {<<"J SMITH", "3015551234", "0704", "1530">>, <<"", "", "", "">>}
\* what the transport replies to the wait for "VMWIStatus"
VMWIStatusReplies == {"0", "1", ""}

DetectCallerId ==
    \E c \in held, t \in Timeouts, out \in EventOutcomes, cid \in CidReplies :
        FinishCall(Op("detect_caller_id", c, <<t>>),
                   detect_caller_id(Now, c, t, out, cid))

DetectCallerIdWaitForResult ==
    \E c \in held, t \in Timeouts, r \in Replies, cid \in CidReplies :
        FinishCall(Op("detect_caller_id_wait_for_result", c, <<t>>),
                   detect_caller_id_wait_for_result(
                       Now, c, t, [rc |-> 0, reply |-> r], cid))

DetectVmwi ==
    \E c \in held, t \in Timeouts, out \in EventOutcomes,
       result \in VMWIStatusReplies :
        FinishCall(Op("detect_vmwi", c, <<t>>),
                   detect_vmwi(Now, c, t, out, result))

DetectVmwiWaitForResult ==
    \E c \in held, t \in Timeouts, r \in Replies,
       result \in VMWIStatusReplies :
        FinishCall(Op("detect_vmwi_wait_for_result", c, <<t>>),
                   detect_vmwi_wait_for_result(
                       Now, c, t, [rc |-> 0, reply |-> r], result))

GetVmwi ==
    \E c \in held : FinishCall(Op("get_vmwi", c, <<>>), get_vmwi(Now, c))

DetectCallerIdStart ==
    \E c \in held, t \in Timeouts, rc \in UserEventRcs :
        /\ MayStart
        /\ FinishCall(Op("detect_caller_id_start", c, <<t>>),
                      Invoke(Now, c, detect_caller_id_start(t),
                             [rc |-> rc, reply |-> ""]))

DetectVmwiStart ==
    \E c \in held, t \in Timeouts, rc \in UserEventRcs :
        /\ MayStart
        /\ FinishCall(Op("detect_vmwi_start", c, <<t>>),
                      Invoke(Now, c, detect_vmwi_start(t),
                             [rc |-> rc, reply |-> ""]))

NextDetect ==
    \/ DetectCallerId \/ DetectCallerIdStart \/ DetectCallerIdWaitForResult
    \/ DetectVmwi \/ DetectVmwiStart \/ DetectVmwiWaitForResult \/ GetVmwi

\* the caller id and VMWI operations of one CasCall
SpecDetect == InitCall /\ [][NextDetect]_vars

(***************************************************************************)
(* get_error_message.                                                      *)
(***************************************************************************)
\* (a variant of error_message with the two hook states exchanged)
error_message_hook_exchanged(return_code) ==
        IF return_code = "0" THEN "None"
        ELSE IF return_code = "1" THEN "Timeout"
        ELSE IF return_code = "2" THEN "Line is offhook"
        ELSE IF return_code = "3" THEN "Line is onhook"
        ELSE IF return_code = "10" THEN "Digit: Invalid type"
        ELSE IF return_code = "20" THEN "Region is undefined"
        ELSE IF return_code = "30" THEN "Fax: Out of rates"
        ELSE IF return_code = "31" THEN "Fax: Invalid data rate"
        ELSE IF return_code = "32" THEN "Fax: Frame check error"
        ELSE IF return_code = "33" THEN "Fax: Failure"
        ELSE IF return_code = "34" THEN "Fax: Another session active"
        ELSE IF return_code = "35" THEN "Fax: T1 timeout"
        ELSE IF return_code = "36" THEN "Fax: Cannot open TIFF file"
        ELSE IF return_code = "37" THEN "Fax: TIFF file name missing"
        ELSE "Error " \o return_code

\* the chain of comparisons of get_error_message
error_message(return_code) ==
        IF return_code = "0" THEN "None"
        ELSE IF return_code = "1" THEN "Timeout"
        ELSE IF return_code = "2" THEN "Line is onhook"
        ELSE IF return_code = "3" THEN "Line is offhook"
        ELSE IF return_code = "10" THEN "Digit: Invalid type"
        ELSE IF return_code = "20" THEN "Region is undefined"
        ELSE IF return_code = "30" THEN "Fax: Out of rates"
        ELSE IF return_code = "31" THEN "Fax: Invalid data rate"
        ELSE IF return_code = "32" THEN "Fax: Frame check error"
        ELSE IF return_code = "33" THEN "Fax: Failure"
        ELSE IF return_code = "34" THEN "Fax: Another session active"
        ELSE IF return_code = "35" THEN "Fax: T1 timeout"
        ELSE IF return_code = "36" THEN "Fax: Cannot open TIFF file"
        ELSE IF return_code = "37" THEN "Fax: TIFF file name missing"
        ELSE "Error " \o return_code

get_error_message(S, c) ==
    [S EXCEPT !.ret = PyStr(error_message(S.calls[c].return_code))]

\* the replies that become return_code: the codes get_error_message knows,
\* and some it does not
ReturnCodes ==
    {"0", "1", "2", "3", "10", "20", "30", "31", "32", "33", "34", "35",
     "36", "37"} \cup {"", "4", "38", "00", "Error"}

CasEventReturnCode ==
    \E c \in held, ws \in SampleEvents, t \in Timeouts, rc \in UserEventRcs,
       r \in ReturnCodes :
        /\ rc = 0 => r = ""
        /\ FinishCall(Op("cas_event", c, <<EventName(ws), <<>>, t>>),
                      cas_event(Now, c, ws, <<>>, t, [rc |-> rc, reply |-> r]))

CasWaitForEventReturnCode ==
    \E c \in held, ws \in SampleEvents, t \in Timeouts, r \in ReturnCodes :
        FinishCall(Op("cas_wait_for_event", c, <<EventName(ws), t>>),
                   cas_wait_for_event(Now, c, ws, t, [rc |-> 0, reply |-> r]))

GetErrorMessage ==
    \E c \in held :
        FinishCall(Op("get_error_message", c, <<>>), get_error_message(Now, c))

NextError ==
    CasEventReturnCode \/ CasWaitForEventReturnCode \/ GetErrorMessage

\* a CasCall whose return_code takes any reply, and get_error_message
SpecError == InitCall /\ [][NextError]_vars

(***************************************************************************)
(* The detectors of CasCall: for each, the blocking operation detect_X,    *)
(* the operation detect_X_start that starts it and the operation           *)
(* detect_X_wait_for_result that waits for its result.                     *)
(***************************************************************************)
detect_busy_tone(timeout, busy_tone_duration) ==
    Req("detect_busy_tone", <<timeout, busy_tone_duration>>, "cas_event",
        <<"Detect", "Busy", "Tone">>,
        << <<"TIMEOUT", FmtInt(timeout)>>,
           <<"BUSY_TONE_DURATION", FmtInt(busy_tone_duration)>> >>,
        timeout)

detect_busy_tone_wait_for_result(timeout) ==
    Req("detect_busy_tone_wait_for_result", <<timeout>>, "cas_wait_for_event",
        <<"Detect", "Busy", "Tone">>,
        <<>>,
        timeout)

detect_call_waiting_tone(timeout) ==
    Req("detect_call_waiting_tone", <<timeout>>, "cas_event",
        <<"Detect", "Call", "Waiting", "Tone">>,
        << <<"TIMEOUT", FmtInt(timeout)>> >>,
        timeout)

detect_call_waiting_tone_wait_for_result(timeout) ==
    Req("detect_call_waiting_tone_wait_for_result", <<timeout>>, "cas_wait_for_event",
        <<"Detect", "Call", "Waiting", "Tone">>,
        <<>>,
        timeout)

detect_confirmation_tone(timeout) ==
    Req("detect_confirmation_tone", <<timeout>>, "cas_event",
        <<"Detect", "Confirmation", "Tone">>,
        << <<"TIMEOUT", FmtInt(timeout)>> >>,
        timeout)

detect_confirmation_tone_wait_for_result(timeout) ==
    Req("detect_confirmation_tone_wait_for_result", <<timeout>>, "cas_wait_for_event",
        <<"Detect", "Confirmation", "Tone">>,
        <<>>,
        timeout)

detect_dial_tone_wait_for_result(timeout) ==
    Req("detect_dial_tone_wait_for_result", <<timeout>>, "cas_wait_for_event",
        <<"Detect", "Dial", "Tone">>,
        <<>>,
        timeout)

detect_distinctive_ringing_signal(ring_count, ring_on_1, ring_off_1, ring_on_2, ring_off_2, ring_on_3, ring_off_3, ring_on_4, ring_off_4, timeout) ==
    Req("detect_distinctive_ringing_signal", <<ring_count, ring_on_1, ring_off_1, ring_on_2, ring_off_2, ring_on_3, ring_off_3, ring_on_4, ring_off_4, timeout>>, "cas_event",
        <<"Detect", "Distinctive", "Ringing", "Signal">>,
        << <<"TIMEOUT", FmtInt(timeout)>>,
           <<"RING_COUNT", FmtInt(ring_count)>>,
           <<"RON1", FmtFloat(ring_on_1)>>,
           <<"ROFF1", FmtFloat(ring_off_1)>>,
           <<"RON2", FmtFloat(ring_on_2)>>,
           <<"ROFF2", FmtFloat(ring_off_2)>>,
           <<"RON3", FmtFloat(ring_on_3)>>,
           <<"ROFF3", FmtFloat(ring_off_3)>>,
           <<"RON4", FmtFloat(ring_on_4)>>,
           <<"ROFF4", FmtFloat(ring_off_4)>> >>,
        timeout)

detect_distinctive_ringing_signal_wait_for_result(timeout) ==
    Req("detect_distinctive_ringing_signal_wait_for_result", <<timeout>>, "cas_wait_for_event",
        <<"Detect", "Distinctive", "Ringing", "Signal">>,
        <<>>,
        timeout)

detect_howler_tone(timeout) ==
    Req("detect_howler_tone", <<timeout>>, "cas_event",
        <<"Detect", "Howler", "Tone">>,
        << <<"TIMEOUT", FmtInt(timeout)>> >>,
        timeout)

detect_howler_tone_wait_for_result(timeout) ==
    Req("detect_howler_tone_wait_for_result", <<timeout>>, "cas_wait_for_event",
        <<"Detect", "Howler", "Tone">>,
        <<>>,
        timeout)

detect_reorder_tone(timeout, reorder_tone_duration) ==
    Req("detect_reorder_tone", <<timeout, reorder_tone_duration>>, "cas_event",
        <<"Detect", "Reorder", "Tone">>,
        << <<"TIMEOUT", FmtInt(timeout)>>,
           <<"REORDER_TONE_DURATION", FmtInt(reorder_tone_duration)>> >>,
        timeout)

detect_reorder_tone_wait_for_result(timeout) ==
    Req("detect_reorder_tone_wait_for_result", <<timeout>>, "cas_wait_for_event",
        <<"Detect", "Reorder", "Tone">>,
        <<>>,
        timeout)

detect_ringback_tone(timeout) ==
    Req("detect_ringback_tone", <<timeout>>, "cas_event",
        <<"Detect", "Ringback", "Tone">>,
        << <<"TIMEOUT", FmtInt(timeout)>> >>,
        timeout)

detect_ringback_tone_wait_for_result(timeout) ==
    Req("detect_ringback_tone_wait_for_result", <<timeout>>, "cas_wait_for_event",
        <<"Detect", "Ringback", "Tone">>,
        <<>>,
        timeout)

detect_ringing_signal(ring_count, ring_on, ring_off, timeout) ==
    Req("detect_ringing_signal", <<ring_count, ring_on, ring_off, timeout>>, "cas_event",
        <<"Detect", "Ringing", "Signal">>,
        << <<"TIMEOUT", FmtInt(timeout)>>,
           <<"RING_COUNT", FmtInt(ring_count)>>,
           <<"RING_ON", FmtFloat(ring_on)>>,
           <<"RING_OFF", FmtFloat(ring_off)>> >>,
        timeout)

detect_ringing_signal_wait_for_result(timeout) ==
    Req("detect_ringing_signal_wait_for_result", <<timeout>>, "cas_wait_for_event",
        <<"Detect", "Ringing", "Signal">>,
        <<>>,
        timeout)

detect_ring_splash(ring_splash_duration, timeout) ==
    Req("detect_ring_splash", <<ring_splash_duration, timeout>>, "cas_event",
        <<"Detect", "Ring", "Splash">>,
        << <<"TIMEOUT", FmtInt(timeout)>>,
           <<"RING_SPLASH_DURATION", FmtFloat(ring_splash_duration)>> >>,
        timeout)

detect_ring_splash_wait_for_result(timeout) ==
    Req("detect_ring_splash_wait_for_result", <<timeout>>, "cas_wait_for_event",
        <<"Detect", "Ring", "Splash">>,
        <<>>,
        timeout)

detect_silence(silence_duration, timeout) ==
    Req("detect_silence", <<silence_duration, timeout>>, "cas_event",
        <<"Detect", "Silence">>,
        << <<"TIMEOUT", FmtInt(timeout)>>,
           <<"SILENCE_DURATION", FmtInt(silence_duration)>> >>,
        timeout)

detect_silence_wait_for_result(timeout) ==
    Req("detect_silence_wait_for_result", <<timeout>>, "cas_wait_for_event",
        <<"Detect", "Silence">>,
        <<>>,
        timeout)

detect_special_dial_tone(timeout) ==
    Req("detect_special_dial_tone", <<timeout>>, "cas_event",
        <<"Detect", "Special", "Dial", "Tone">>,
        << <<"TIMEOUT", FmtInt(timeout)>> >>,
        timeout)

detect_special_dial_tone_wait_for_result(timeout) ==
    Req("detect_special_dial_tone_wait_for_result", <<timeout>>, "cas_wait_for_event",
        <<"Detect", "Special", "Dial", "Tone">>,
        <<>>,
        timeout)

detect_speech(speech_duration, timeout) ==
    Req("detect_speech", <<speech_duration, timeout>>, "cas_event",
        <<"Verify", "Speech">>,
        << <<"TIMEOUT", FmtInt(timeout)>>,
           <<"SPEECH_DURATION", FmtInt(speech_duration)>> >>,
        timeout)

detect_speech_wait_for_result(timeout) ==
    Req("detect_speech_wait_for_result", <<timeout>>, "cas_wait_for_event",
        <<"Verify", "Speech">>,
        <<>>,
        timeout)

detect_test_tone(timeout) ==
    Req("detect_test_tone", <<timeout>>, "cas_event",
        <<"Detect", "Test", "Tone">>,
        << <<"TIMEOUT", FmtInt(timeout)>> >>,
        timeout)

detect_test_tone_wait_for_result(timeout) ==
    Req("detect_test_tone_wait_for_result", <<timeout>>, "cas_wait_for_event",
        <<"Detect", "Test", "Tone">>,
        <<>>,
        timeout)

detect_tone(freq1, freq2, timeout) ==
    Req("detect_tone", <<freq1, freq2, timeout>>, "cas_event",
        <<"Detect", "Tone">>,
        << <<"TIMEOUT", FmtInt(timeout)>>,
           <<"FREQ1", FmtInt(freq1)>>,
           <<"FREQ2", FmtInt(freq2)>> >>,
        timeout)

detect_tone_wait_for_result(timeout) ==
    Req("detect_tone_wait_for_result", <<timeout>>, "cas_wait_for_event",
        <<"Detect", "Tone">>,
        <<>>,
        timeout)

\* an operation that is more than one call of a helper: it is modelled by
\* the operator of its name
Method(op, args) == Req(op, args, "self", <<>>, <<>>, 0)

\* the call of an operation, given as its request
Call(S, c, req, out) ==
    IF req.helper # "self" THEN Invoke(S, c, req, out)
    ELSE CASE req.op = "detect_dial_tone" ->
                detect_dial_tone(S, c, req.args[1], req.args[2], out)
           [] req.op = "detect_vmwi" ->
                detect_vmwi(S, c, req.args[1], out, "0")
           [] req.op = "detect_vmwi_wait_for_result" ->
                detect_vmwi_wait_for_result(S, c, req.args[1], out, "0")
           [] req.op = "detect_caller_id" ->
                detect_caller_id(S, c, req.args[1], out, <<"", "", "", "">>)
           [] req.op = "detect_caller_id_wait_for_result" ->
                detect_caller_id_wait_for_result(S, c, req.args[1], out,
                                                 <<"", "", "", "">>)

Detector(start, blocking, wait) ==
    [start |-> start, blocking |-> blocking, wait |-> wait]

\* The detectors, each called with the timeout t and the defaults or sample
\* values of its other parameters, the same for detect_X_start and detect_X
Detectors(t) ==
    <<
        Detector(detect_busy_tone_start(t, 10000),
            detect_busy_tone(t, 10000),
            detect_busy_tone_wait_for_result(t)),
        Detector(detect_call_waiting_tone_start(t),
            detect_call_waiting_tone(t),
            detect_call_waiting_tone_wait_for_result(t)),
        Detector(detect_confirmation_tone_start(t),
            detect_confirmation_tone(t),
            detect_confirmation_tone_wait_for_result(t)),
        Detector(detect_dial_tone_start(t, 20000),
            Method("detect_dial_tone", <<t, 20000>>),
            detect_dial_tone_wait_for_result(t)),
        Detector(detect_distinctive_ringing_signal_start(2, Float(800, 0), Float(400, 0), Float(800, 0),
            Float(4000, 0), Float(0, 0), Float(0, 0), Float(0, 0), Float(0, 0), t),
            detect_distinctive_ringing_signal(2, Float(800, 0), Float(400, 0), Float(800, 0),
            Float(4000, 0), Float(0, 0), Float(0, 0), Float(0, 0), Float(0, 0), t),
            detect_distinctive_ringing_signal_wait_for_result(t)),
        Detector(detect_howler_tone_start(t),
            detect_howler_tone(t),
            detect_howler_tone_wait_for_result(t)),
        Detector(detect_reorder_tone_start(t, 10000),
            detect_reorder_tone(t, 10000),
            detect_reorder_tone_wait_for_result(t)),
        Detector(detect_ringback_tone_start(t),
            detect_ringback_tone(t),
            detect_ringback_tone_wait_for_result(t)),
        Detector(detect_ringing_signal_start(1, Float(2000, 0), Float(4000, 0), t),
            detect_ringing_signal(1, Float(2000, 0), Float(4000, 0), t),
            detect_ringing_signal_wait_for_result(t)),
        Detector(detect_ring_splash_start(Float(500, 0), t),
            detect_ring_splash(Float(500, 0), t),
            detect_ring_splash_wait_for_result(t)),
        Detector(detect_silence_start(3000, t),
            detect_silence(3000, t),
            detect_silence_wait_for_result(t)),
        Detector(detect_special_dial_tone_start(t),
            detect_special_dial_tone(t),
            detect_special_dial_tone_wait_for_result(t)),
        Detector(detect_speech_start(3000, t),
            detect_speech(3000, t),
            detect_speech_wait_for_result(t)),
        Detector(detect_test_tone_start(t),
            detect_test_tone(t),
            detect_test_tone_wait_for_result(t)),
        Detector(detect_tone_start(1004, 0, t),
            detect_tone(1004, 0, t),
            detect_tone_wait_for_result(t)),
        Detector(detect_vmwi_start(t),
            Method("detect_vmwi", <<t>>),
            Method("detect_vmwi_wait_for_result", <<t>>)),
        Detector(detect_caller_id_start(t),
            Method("detect_caller_id", <<t>>),
            Method("detect_caller_id_wait_for_result", <<t>>))
    >>

\* the calls of them that are made here: every detector with the default
\* timeout, and the first four with another
DetectorCalls == Detectors(timeout_default) \o SubSeq(Detectors(1000), 1, 4)

\* a detection may be started while fewer than MaxDetecting are outstanding
MayDetect == BagCardinality(pending) < MaxDetecting

DetectStart ==
    \E c \in held, i \in DOMAIN DetectorCalls, rc \in UserEventRcs :
        LET req == DetectorCalls[i].start IN
            /\ MayDetect
            /\ FinishCall(Op(req.op, c, req.args),
                          Call(Now, c, req, [rc |-> rc, reply |-> ""]))

DetectBlocking ==
    \E c \in held, i \in DOMAIN DetectorCalls, out \in EventOutcomes :
        LET req == DetectorCalls[i].blocking IN
            FinishCall(Op(req.op, c, req.args), Call(Now, c, req, out))

DetectWaitForResult ==
    \E c \in held, i \in DOMAIN DetectorCalls, r \in Replies :
        LET req == DetectorCalls[i].wait IN
            FinishCall(Op(req.op, c, req.args),
                       Call(Now, c, req, [rc |-> 0, reply |-> r]))

NextDetectors == DetectStart \/ DetectBlocking \/ DetectWaitForResult

\* the three operations of every detector of one CasCall
SpecDetectors == InitCall /\ [][NextDetectors]_vars

(***************************************************************************)
(* Properties.                                                             *)
(***************************************************************************)
\* a step of the operation op (every operation sets lastOp; a step that
\* changes nothing is left out, as it is no different from no step)
Did(op) == lastOp'.op = op /\ (lastOp.op = op => vars' # vars)

\* the lines a system_check of the ports 1..MaxPort opens, and one more
AllLines == 1..(MaxPort * TimeslotsPerCard + 1)

\* C1: after any sequence of open_line, close_line and system_check calls,
\* get_cas_call(line) is the call returned by the last successful
\* open_line(line) if that call was not passed to close_line since, and
\* None for every other line.
C1_GetCasCallIsLastOpenNotClosed ==
    \A line \in AllLines :
        get_cas_call(active_lines, line) =
            IF line \in DOMAIN lastOpened /\ lastOpened[line] \notin closed
            THEN PyRef(lastOpened[line])
            ELSE PyNone

\* C1 witness: a system_check was made and raised half way, a line it
\* opened is still tracked, a line the user opened was closed and a line
\* was never opened.
C1_Witness ==
    /\ nchecks > 0
    /\ \E line \in AllLines : get_cas_call(active_lines, line).kind = "CasCall"
    /\ \E line \in DOMAIN lastOpened :
          lastOpened[line] \in closed \cap held
    /\ \E line \in AllLines : line \notin DOMAIN lastOpened

\* C2 (as claimed): open_line on a connected client returns a CasCall
\* object on every outcome of the transport.
C2_OpenLineReturnsCasCall ==
    lastOp.op = "open_line" /\ trace # <<>> => ret.kind = "CasCall"

\* C3: open_line records a call in active_lines[line] exactly when
\* StartScript returns a non-zero handle, ScriptStatus is "Running" and
\* TSStatus is "TS is unique", and the recorded and returned call carries
\* that handle; when ScriptStatus is not "Running" the returned call has
\* handle 108, when TSStatus is not "TS is unique" it has handle 305, and in
\* both cases active_lines is unchanged.
C3_OpenLineRecords ==
    [][Did("open_line") /\ trace' # <<>> =>
        LET line == lastOp'.args[1]
            tr == trace'
            h == tr[1].rc
            running == Len(tr) >= 2 /\ tr[2].reply = "Running"
            unique == Len(tr) >= 3 /\ tr[3].reply = "TS is unique"
        IN /\ tr[1].fn = "StartScript"
           /\ (active_lines' # active_lines) <=> (h # 0 /\ running /\ unique)
           /\ h # 0 /\ running /\ unique =>
                /\ ret'.kind = "CasCall"
                /\ active_lines' = Put(active_lines, line, ret'.val)
                /\ ret'.val \notin DOMAIN calls
                /\ calls'[ret'.val].handle = h
           /\ h # 0 /\ ~running =>
                /\ tr[2].name = "ScriptStatus"
                /\ ret'.kind = "CasCall"
                /\ calls'[ret'.val].handle = 108
           /\ h # 0 /\ running /\ ~unique =>
                /\ tr[3].name = "TSStatus"
                /\ ret'.kind = "CasCall"
                /\ calls'[ret'.val].handle = 305
    ]_vars

\* C3 witness: an open_line that was answered "Running" and "TS is unique"
\* has recorded the call it returned, after one that was not has not.
C3_Witness ==
    /\ lastOp.op = "open_line"
    /\ Len(trace) = 3 /\ trace[3].reply = "TS is unique"
    /\ ret.kind = "CasCall"
    /\ active_lines[lastOp.args[1]] = ret.val
    /\ calls[ret.val].handle = trace[1].rc
    /\ \E c \in held : calls[c].handle = 305

\* C4 (as claimed): when active_lines holds a call for the line, a further
\* open_line(line) does not replace or drop it.
C4_OpenLineKeepsTrackedCall ==
    [][Did("open_line") /\ lastOp'.args[1] \in DOMAIN active_lines =>
        /\ lastOp'.args[1] \in DOMAIN active_lines'
        /\ active_lines'[lastOp'.args[1]] = active_lines[lastOp'.args[1]]
    ]_vars

\* C5: after close_line(call) no entry of active_lines maps to the call,
\* whatever result code it returns.
C5_CloseLineReleases ==
    lastOp.op = "close_line" => lastOp.args[1] \notin Values(active_lines)

\* C5 witness: close_line of a call that was tracked for a line returned
\* SENDING_FAILED, and another returned SERVER_ERROR_SCRIPT_NOT_AVAILABLE.
C5_Witness ==
    /\ lastOp.op = "close_line"
    /\ ret.val = 102
    /\ \E line \in DOMAIN lastOpened : lastOpened[line] = lastOp.args[1]
    /\ lastOp.args[1] \notin Values(active_lines)

\* C6: close_line returns SUCCESS (0) exactly when StopScript returns
\* non-zero and the StopScriptStatus reply is "Script Stopped", 300 when the
\* reply is "", 309 for any other reply, and 102 when StopScript returns 0,
\* in which case no WaitForEvent is issued; response_code is the value
\* returned.
C6_CloseLineResult ==
    lastOp.op = "close_line" =>
        LET stopped == trace[1].rc # 0
            reply == trace[2].reply
        IN /\ trace[1].fn = "StopScript"
           /\ trace[1].handle = calls[lastOp.args[1]].handle
           /\ ret.kind = "int" /\ response_code = ret.val
           /\ stopped =>
                /\ Len(trace) = 2
                /\ trace[2].fn = "WaitForEvent"
                /\ trace[2].name = "StopScriptStatus"
                /\ (ret.val = 0) <=> (reply = "Script Stopped")
                /\ reply = "" => ret.val = 300
                /\ reply \notin {"", "Script Stopped"} => ret.val = 309
           /\ ~stopped => ret.val = 102 /\ Len(trace) = 1

\* C6 witness: close_line returned SERVER_ERROR_SCRIPT_NOT_AVAILABLE after
\* the reply "Script Not Found", and response_code is that value.
C6_Witness ==
    /\ lastOp.op = "close_line"
    /\ ret.val = 309
    /\ Len(trace) = 2 /\ trace[2].reply = "Script Not Found"
    /\ response_code = 309

\* C7 (as claimed): cas_event returns a boolean: True exactly when UserEvent
\* returns non-zero and the WaitForEvent reply is "0", and False in every
\* other case.
C7_CasEventReturnsBoolean ==
    lastOp.op = "cas_event" =>
        /\ ret.kind = "bool"
        /\ ret.val <=> /\ trace[1].rc # 0
                       /\ Len(trace) = 2
                       /\ trace[2].reply = "0"

\* the operations that are a cas_event, or a chain of them
RoundTripOps ==
    {"cas_event", "offhook", "onhook", "detect_dial_tone", "dial",
     "place_call"}

\* C8 (as claimed): at most one user event is outstanding (sent with
\* UserEvent and not yet followed by its WaitForEvent) at any time.
C8_AtMostOneOutstanding == peak <= 1

\* C8 (amended): an operation built on cas_event does one blocking round
\* trip at a time: every user event it sends that the transport accepts is
\* followed at once by the WaitForEvent for its reply on the same handle, so
\* it leaves no more user events outstanding than it found, and at most one
\* more than it found is outstanding while it runs.  cas_user_event_start
\* returns with its event outstanding, so the number outstanding is not
\* bounded by one.
C8_RoundTripOpsWaitAtOnce ==
    [][Did("cas_user_event_start") \/ (\E op \in RoundTripOps : Did(op)) =>
        IF lastOp'.op = "cas_user_event_start"
        THEN /\ Len(trace') = 1
             /\ trace'[1].fn = "UserEvent"
             /\ pending' = Outstanding(pending, trace'[1])
             /\ trace'[1].rc # 0 =>
                    BagCardinality(pending') = BagCardinality(pending) + 1
        ELSE /\ \A i \in DOMAIN trace' :
                    trace'[i].fn = "UserEvent" /\ trace'[i].rc # 0 =>
                        /\ i < Len(trace')
                        /\ trace'[i + 1].fn = "WaitForEvent"
                        /\ trace'[i + 1].handle = trace'[i].handle
                        /\ trace'[i + 1].name = trace'[i].key
             /\ BagCardinality(pending') <= BagCardinality(pending)
             /\ peak' <= BagCardinality(pending) + 1
    ]_vars

\* C8 witness: offhook has made its round trip while a user event that
\* cas_user_event_start sent was outstanding, and that one still is: two
\* were outstanding at once.
C8_Witness ==
    /\ lastOp.op = "offhook"
    /\ Len(trace) = 2 /\ trace[1].rc # 0 /\ trace[2].fn = "WaitForEvent"
    /\ peak = 2
    /\ BagCardinality(pending) = 1

\* C9 (as claimed): every operation documented as a non-blocking function
\* sends its user event and returns without issuing any WaitForEvent.
C9_NonBlockingIssuesNoWait ==
    lastOp.op \in NonBlockingDocumented =>
        /\ Len(trace) = 1
        /\ trace[1].fn = "UserEvent"
        /\ \A i \in DOMAIN trace : trace[i].fn # "WaitForEvent"

\* the k-th step of a place_call was made and succeeded
StepSucceeded(k) ==
    /\ Len(trace) >= 2 * k
    /\ trace[2 * k - 1].rc # 0
    /\ trace[2 * k].reply = "0"

\* the user events a place_call sends, in order
PlaceCallEvents(num) ==
    << [name |-> "Offhook", args |-> <<>>],
       [name |-> "Detect Dial Tone",
        args |-> << <<"TIMEOUT", "(i)20000">>,
                    <<"DIAL_TONE_DURATION", "(i)20000">> >>],
       [name |-> "Dial", args |-> << <<"DIGITS", "(s)" \o num>> >>] >>

\* C10: place_call(num) performs, in this order, offhook,
\* detect_dial_tone(20000) and dial(num); it returns True exactly when all
\* three return True and False otherwise, and after the first step that
\* does not succeed it sends no further user event.
C10_PlaceCallChain ==
    lastOp.op = "place_call" =>
        LET sent == SelectSeq(trace, LAMBDA e : e.fn = "UserEvent")
            num == lastOp.args[1]
            n == Len(sent)
        IN /\ n \in 1..3
           /\ \A k \in 1..n :
                /\ sent[k].name = PlaceCallEvents(num)[k].name
                /\ sent[k].args = PlaceCallEvents(num)[k].args
                /\ sent[k].handle = calls[lastOp.self].handle
           /\ \A e \in {trace[i] : i \in DOMAIN trace} :
                e.fn \in {"UserEvent", "WaitForEvent"}
           /\ \A k \in 1..2 : (n > k) <=> \A j \in 1..k : StepSucceeded(j)
           /\ ret.kind = "bool"
           /\ ret.val <=> \A k \in 1..3 : StepSucceeded(k)

\* C10 witness: a place_call went off hook and stopped after the dial tone
\* detection was answered "1": two user events, no dial, False.
C10_Witness ==
    /\ lastOp.op = "place_call"
    /\ Len(trace) = 4
    /\ trace[3].name = "Detect Dial Tone" /\ trace[3].rc # 0
    /\ trace[4].reply = "1"
    /\ ret = PyBool(FALSE)

\* the statuses system_check is documented to report
T1Statuses == {"Port available", "Port in use", "No dial tone", "Hardware error"}

\* C11 (as claimed): system_check(t1_port) on a connected client returns,
\* for every outcome of the transport, a status for each of the 24 timeslots
\* 0..23 of the port, and every status is one of the four documented ones.
C11_SystemCheckReturnsStatuses ==
    lastOp.op = "system_check" /\ connection_id \notin {NoAttr, 0} =>
        /\ ret.kind = "dict"
        /\ DOMAIN ret.val = Slots
        /\ \A i \in Slots : ret.val[i] \in T1Statuses

\* the status the claim gives a line that was opened, by the reply to its
\* VerifyDialTone wait
StatusOfReply(reply) ==
    IF reply = "1" THEN "No dial tone"
    ELSE IF reply = "2" THEN "Hardware error"
    ELSE "Port available"

\* C12 (as claimed): in the result of system_check(t1_port) on a connected
\* client, timeslot i is
\* "Port in use" exactly when open_line of line (t1_port-1)*24+1+i did not
\* succeed; for a line that was opened successfully it is "No dial tone"
\* when the VerifyDialTone reply is "1", "Hardware error" when it is "2",
\* and "Port available" for any other reply.
C12_SystemCheckStatusPerLine ==
    [][(Did("system_check") /\ connection_id \notin {NoAttr, 0}
         /\ ret'.kind = "dict") =>
        LET start_port == (lastOp'.args[1] - 1) * TimeslotsPerCard + 1
            \* the calls this system_check created are numbered from nextObj
            opened(i) == /\ (start_port + i) \in DOMAIN lastOpened'
                         /\ lastOpened'[start_port + i] >= nextObj
            waits == SelectSeq(trace', LAMBDA e : e.name = "VerifyDialTone")
            nth(i) == Cardinality({j \in 0..i : opened(j)})
        IN \A i \in Slots :
            /\ (ret'.val[i] = "Port in use") <=> ~opened(i)
            /\ opened(i) =>
                /\ nth(i) <= Len(waits)
                /\ ret'.val[i] = StatusOfReply(waits[nth(i)].reply)
    ]_vars

\* the replies the caller id is read from, in the order it is read
CidEvents == <<"CIDName", "CIDNumber", "CIDDate", "CIDTime">>

\* C13: detect_caller_id(timeout) and detect_caller_id_wait_for_result(
\* timeout) return a CallerId: when the "DetectCallerID" reply is "0" its
\* name, number, date and time are the replies read, in this order, from
\* CIDName, CIDNumber, CIDDate and CIDTime; in every other case no CID* wait
\* is issued and all four fields are the empty string.
C13_CallerIdFromReplies ==
    lastOp.op \in {"detect_caller_id", "detect_caller_id_wait_for_result"} =>
        LET det == SelectSeq(trace, LAMBDA e : /\ e.fn = "WaitForEvent"
                                               /\ e.name = "DetectCallerID")
            cidw == SelectSeq(trace, LAMBDA e :
                        e.name \in {CidEvents[k] : k \in 1..4})
            n == Len(trace)
        IN /\ ret.kind = "CallerId"
           /\ Len(det) <= 1
           /\ IF Len(det) = 1 /\ det[1].reply = "0"
              THEN /\ Len(cidw) = 4
                   /\ \A k \in 1..4 :
                        /\ trace[n - 4 + k] = cidw[k]
                        /\ cidw[k].fn = "WaitForEvent"
                        /\ cidw[k].name = CidEvents[k]
                        /\ cidw[k].handle = calls[lastOp.self].handle
                   /\ trace[n - 4] = det[1]
                   /\ ret.name = cidw[1].reply
                   /\ ret.number = cidw[2].reply
                   /\ ret.date = cidw[3].reply
                   /\ ret.time = cidw[4].reply
              ELSE /\ cidw = <<>>
                   /\ ret.name = "" /\ ret.number = ""
                   /\ ret.date = "" /\ ret.time = ""

\* C13 witness: detect_caller_id_wait_for_result was answered "0" and
\* returned the name and the number that were replied.
C13_Witness ==
    /\ lastOp.op = "detect_caller_id_wait_for_result"
    /\ Len(trace) = 5 /\ trace[1].reply = "0"
    /\ trace[2].name = "CIDName" /\ trace[2].reply = "J SMITH"
    /\ ret.kind = "CallerId"
    /\ ret.name = "J SMITH" /\ ret.number = "3015551234"

\* C14 (as claimed): get_vmwi() returns "On" or "Off" in every reachable
\* state of a CasCall, before and after any sequence of detect_vmwi,
\* detect_vmwi_start and detect_vmwi_wait_for_result calls.
C14_GetVmwiOnOrOff ==
    lastOp.op = "get_vmwi" => ret.kind = "str" /\ ret.val \in {"On", "Off"}

\* the table of the messages
ErrorMessages ==
    (("0" :> "None") @@
     ("1" :> "Timeout") @@
     ("2" :> "Line is onhook") @@
     ("3" :> "Line is offhook") @@
     ("10" :> "Digit: Invalid type") @@
     ("20" :> "Region is undefined") @@
     ("30" :> "Fax: Out of rates") @@
     ("31" :> "Fax: Invalid data rate") @@
     ("32" :> "Fax: Frame check error") @@
     ("33" :> "Fax: Failure") @@
     ("34" :> "Fax: Another session active") @@
     ("35" :> "Fax: T1 timeout") @@
     ("36" :> "Fax: Cannot open TIFF file") @@
     ("37" :> "Fax: TIFF file name missing"))

\* C15: get_error_message() is a static total table over return_code: "0"
\* gives "None", "1" "Timeout", "2" "Line is onhook", "3" "Line is offhook",
\* "10" "Digit: Invalid type", "20" "Region is undefined", "30".."37" the
\* eight "Fax: ..." messages, and any other value c (including the initial
\* empty string) gives "Error " followed by c; it changes no state.
C15_ErrorMessageTable ==
    [][Did("get_error_message") =>
        LET c == calls[lastOp'.self].return_code
        IN /\ ret' = [kind |-> "str",
                      val |-> IF c \in DOMAIN ErrorMessages
                              THEN ErrorMessages[c] ELSE "Error " \o c]
           /\ trace' = <<>>
           /\ UNCHANGED <<connection_id, status, response_code, active_lines,
                          calls, held, pending>>
    ]_vars

\* C15 witness: get_error_message returned the message of "36", and the
\* return_code is still "36".
C15_Witness ==
    /\ lastOp.op = "get_error_message"
    /\ calls[lastOp.self].return_code = "36"
    /\ ret.val = "Fax: Cannot open TIFF file"

\* the event names the helpers are called with, and each with its spaces
\* removed
SpacesRemoved == ("Flash" :> "Flash") @@ ("Send Test Tone" :> "SendTestTone")

\* C16: there is no retry: one call of cas_event issues exactly one
\* UserEvent and then exactly one WaitForEvent when the send was accepted
\* (non-zero) and none when it was rejected (0); the wait is on the event
\* name with its spaces removed and a timeout of timeout+5000, while
\* cas_wait_for_event issues exactly one WaitForEvent with timeout+1000 and
\* no UserEvent.
C16_NoRetry ==
    /\ lastOp.op = "cas_event" =>
        /\ trace[1].fn = "UserEvent"
        /\ trace[1].name = lastOp.args[1]
        /\ trace[1].handle = calls[lastOp.self].handle
        /\ Len(trace) = IF trace[1].rc # 0 THEN 2 ELSE 1
        /\ trace[1].rc # 0 =>
            /\ trace[2].fn = "WaitForEvent"
            /\ trace[2].handle = trace[1].handle
            /\ trace[2].name = SpacesRemoved[lastOp.args[1]]
            /\ trace[2].timeout = lastOp.args[3] + 5000
    /\ lastOp.op = "cas_wait_for_event" =>
        /\ Len(trace) = 1
        /\ trace[1].fn = "WaitForEvent"
        /\ trace[1].handle = calls[lastOp.self].handle
        /\ trace[1].name = SpacesRemoved[lastOp.args[1]]
        /\ trace[1].timeout = lastOp.args[2] + 1000

\* C16 witness: cas_event("Send Test Tone", [], 1000) was accepted and
\* waited once, for "SendTestTone" and 6000 ms, and the reply was not "0".
C16_Witness ==
    /\ lastOp.op = "cas_event"
    /\ lastOp.args[1] = "Send Test Tone" /\ lastOp.args[3] = 1000
    /\ Len(trace) = 2
    /\ trace[2].name = "SendTestTone" /\ trace[2].timeout = 6000
    /\ trace[2].reply = "1"

\* the transport calls of the blocking operation of the detector d, called
\* on the same call with the same arguments, when its user event is
\* accepted and answered "0"
BlockingCalls(d) ==
    Call(Now, lastOp.self, d.blocking, [rc |-> 1, reply |-> "0"]).trace

\* C17 (as claimed): for every detector X of CasCall, detect_X_start sends
\* the same user event name with the same parameter names and formatted
\* values as the blocking detect_X called with the same arguments, and
\* detect_X_wait_for_result waits on the same reply event name as detect_X.
C17_StartSendsWhatBlockingSends ==
    \A i \in DOMAIN DetectorCalls :
        LET d == DetectorCalls[i] IN
        /\ (lastOp.op = d.start.op /\ lastOp.args = d.start.args) =>
            /\ Len(trace) = 1
            /\ trace[1].fn = "UserEvent"
            /\ trace[1].name = BlockingCalls(d)[1].name
            /\ trace[1].args = BlockingCalls(d)[1].args
        /\ (lastOp.op = d.wait.op /\ lastOp.args = d.wait.args) =>
            /\ trace[1].fn = "WaitForEvent"
            /\ trace[1].name = BlockingCalls(d)[2].name

=====
